---- MODULE Spec2Model ----
(***************************************************************************)
(* HybridRetriever of hybridRAG: the three strategy weights, set_weights,  *)
(* and the score fusion of _combine_and_rerank.                            *)
(*                                                                         *)
(* Python floats are modelled as exact rationals [n, d] in lowest terms    *)
(* with d > 0; d = 0 is NaN.  Float rounding and overflow are outside the  *)
(* model.                                                                  *)
(***************************************************************************)
EXTENDS Integers, Sequences, FiniteSets, TLC

VARIABLES
    vector_weight,      \* self.vector_weight
    fulltext_weight,    \* self.fulltext_weight
    semantic_weight,    \* self.semantic_weight
    inputs,             \* the arguments of the fusion call of this behaviour
    op,                 \* the last completed call: name, arguments, outcome
    calls,              \* number of set_weights calls made so far
    allPositive,        \* history: every set_weights call so far normalised a sum > 0
    repeated,           \* history: the last set_weights call repeated the one before
                        \* it, which normalised a sum > 0
    f_pc,               \* a fusion call running beside other requests: its position
    f_i,                \* ... the index of its current loop in the list it iterates
    f_cs,               \* ... its local dict combined_scores
    e_weights,          \* an explanation running beside other requests: the
                        \* strategy_weights it reports
    s_pc,               \* a set_weights call of another request: its position
    s_args,             \* ... its arguments
    s_total,            \* ... its local total_weight
    s_tmp,              \* ... the weight it has read for the in-place division
    s_pre,              \* ... history: the weights when the call began
    env,                \* what the retriever talks to: the ranking each search
                        \* backend holds for the query, the backends that are
                        \* down, the state of the completion service
    request,            \* the arguments of the retrieval call of this behaviour
    log                 \* the backend and fusion calls the last call made, in order

seqVars == <<vector_weight, fulltext_weight, semantic_weight, inputs, op, calls,
             allPositive, repeated>>

threadVars == <<f_pc, f_i, f_cs, e_weights, s_pc, s_args, s_total, s_tmp, s_pre>>

envVars == <<env, request, log>>

vars == <<vector_weight, fulltext_weight, semantic_weight, inputs, op, calls,
          allPositive, repeated, f_pc, f_i, f_cs, e_weights, s_pc, s_args, s_total,
          s_tmp, s_pre, env, request, log>>

-----------------------------------------------------------------------------
(* Bounds *)

MaxCalls == 2

\* most (document, score) pairs in the three lists of one fusion call together
MaxLen == 2

\* most generate_embedding calls followed over the runs of the program
MaxEmbeddings == 2

\* most runs of the program followed
MaxRuns == 2

\* most lines in the three ingestion scripts together
MaxLines == 3

-----------------------------------------------------------------------------
(* Numbers *)

Abs(x) == IF x < 0 THEN -x ELSE x

RECURSIVE GCD(_, _)
GCD(a, b) == IF b = 0 THEN a ELSE GCD(b, a % b)

NaN == [n |-> 0, d |-> 0]

IsNaN(x) == x.d = 0

\* the float n/d, in lowest terms
R(n, d) ==
    LET s == IF d < 0 THEN -1 ELSE 1
        g == GCD(Abs(n), Abs(d))
    IN  [n |-> (s * n) \div g, d |-> (s * d) \div g]

Zero == R(0, 1)
One == R(1, 1)

Add(a, b) == IF IsNaN(a) \/ IsNaN(b) THEN NaN ELSE R(a.n * b.d + b.n * a.d, a.d * b.d)

Mul(a, b) == IF IsNaN(a) \/ IsNaN(b) THEN NaN ELSE R(a.n * b.n, a.d * b.d)

\* a < b; every comparison with NaN is false
Less(a, b) == ~IsNaN(a) /\ ~IsNaN(b) /\ a.n * b.d < b.n * a.d

\* IEEE division as numpy would do it: 0/0 is NaN and nothing is raised
truediv_nan(a, b) ==
    IF IsNaN(a) \/ IsNaN(b) \/ b.n = 0
    THEN [ok |-> TRUE, val |-> NaN]
    ELSE [ok |-> TRUE, val |-> R(a.n * b.d, a.d * b.n)]

\* Python's a / b: raises ZeroDivisionError when b is 0
truediv(a, b) ==
    IF ~IsNaN(b) /\ b.n = 0 THEN [ok |-> FALSE, val |-> a]
    ELSE IF IsNaN(a) \/ IsNaN(b) THEN [ok |-> TRUE, val |-> NaN]
    ELSE [ok |-> TRUE, val |-> R(a.n * b.d, a.d * b.n)]

-----------------------------------------------------------------------------
(* Weights *)

None == [some |-> FALSE, val |-> Zero]
Some(x) == [some |-> TRUE, val |-> x]

\* the values a set_weights argument is drawn from
WeightArgs == {None, Some(R(-1, 1)), Some(Zero), Some(R(3, 10)), Some(R(2, 5))}

W(v, f, s) == [vector |-> v, fulltext |-> f, semantic |-> s]

weights == W(vector_weight, fulltext_weight, semantic_weight)

DefaultWeights == W(R(2, 5), R(3, 10), R(3, 10))

Sum3(w) == Add(Add(w.vector, w.fulltext), w.semantic)

\* every argument is stored, an omitted one as 0
assign_all(w, a) == W(a.vector.val, a.fulltext.val, a.semantic.val)

\* each supplied argument is added to the stored weight (+= for =)
assign_add(w, a) ==
    W(IF a.vector.some THEN Add(w.vector, a.vector.val) ELSE w.vector,
      IF a.fulltext.some THEN Add(w.fulltext, a.fulltext.val) ELSE w.fulltext,
      IF a.semantic.some THEN Add(w.semantic, a.semantic.val) ELSE w.semantic)

\* the vector argument is stored as the fulltext weight and the fulltext
\* argument as the vector weight
assign_swapped(w, a) ==
    W(IF a.fulltext.some THEN a.fulltext.val ELSE w.vector,
      IF a.vector.some THEN a.vector.val ELSE w.fulltext,
      IF a.semantic.some THEN a.semantic.val ELSE w.semantic)

\* lines 36-41: each supplied argument replaces the stored weight
assign_weights(w, a) ==
    W(IF a.vector.some THEN a.vector.val ELSE w.vector,
      IF a.fulltext.some THEN a.fulltext.val ELSE w.fulltext,
      IF a.semantic.some THEN a.semantic.val ELSE w.semantic)

\* normalisation that divides the vector weight only
normalize_first_only(w) ==
    LET total_weight == Sum3(w)
        dv == truediv(w.vector, total_weight)
    IN  IF ~dv.ok THEN [w |-> w, status |-> "ZeroDivisionError"]
        ELSE [w |-> [w EXCEPT !.vector = dv.val], status |-> "ok"]

\* lines 44-47: total_weight is read once, then the three weights are divided
\* in order; the first failing division leaves the rest as assigned
normalize_weights(w) ==
    LET total_weight == Sum3(w)
        dv == truediv(w.vector, total_weight)
        df == truediv(w.fulltext, total_weight)
        ds == truediv(w.semantic, total_weight)
    IN  IF ~dv.ok THEN [w |-> w, status |-> "ZeroDivisionError"]
        ELSE IF ~df.ok THEN [w |-> [w EXCEPT !.vector = dv.val],
                             status |-> "ZeroDivisionError"]
        ELSE IF ~ds.ok THEN [w |-> [w EXCEPT !.vector = dv.val, !.fulltext = df.val],
                             status |-> "ZeroDivisionError"]
        ELSE [w |-> W(dv.val, df.val, ds.val), status |-> "ok"]

NoResult == << >>

NoInputs == [vector_results |-> << >>, fulltext_results |-> << >>,
             semantic_results |-> << >>, top_k |-> 0]

NoArgs == W(None, None, None)

\* the requests that may call set_weights beside the caller
Setters == {1, 2}

\* positions of a set_weights call outside its statements
\* the strategy_weights of an explanation that has not read a weight yet
NoReport == W(Zero, Zero, Zero)

Idle == <<"idle", "-">>
Done == <<"done", "-">>
Raised == <<"raised", "-">>

NoOp == [name |-> "init", args |-> NoArgs, pre |-> DefaultWeights, total |-> One,
         status |-> "ok", entries |-> << >>, result |-> NoResult]

\* HybridRetriever.set_weights(vector_weight, fulltext_weight, semantic_weight)
set_weights(a) ==
    LET w1 == assign_weights(weights, a)
        out == normalize_weights(w1)
    IN  /\ calls < MaxCalls
        /\ vector_weight' = out.w.vector
        /\ fulltext_weight' = out.w.fulltext
        /\ semantic_weight' = out.w.semantic
        /\ op' = [name |-> "set_weights", args |-> a, pre |-> weights,
                  total |-> Sum3(w1), status |-> out.status, entries |-> << >>,
                  result |-> NoResult]
        /\ calls' = calls + 1
        /\ allPositive' = (allPositive /\ Less(Zero, Sum3(w1)))
        /\ repeated' = (op.name = "set_weights" /\ op.args = a /\ Less(Zero, op.total))
        /\ UNCHANGED inputs
        /\ UNCHANGED <<threadVars, envVars>>

\* HybridRetriever.__init__: the default weights
InitWeights ==
    /\ vector_weight = R(2, 5)
    /\ fulltext_weight = R(3, 10)
    /\ semantic_weight = R(3, 10)
    /\ op = NoOp
    /\ calls = 0
    /\ allPositive = TRUE
    /\ repeated = FALSE

NoEnv == [vector |-> << >>, fulltext |-> << >>, semantic |-> << >>,
          failing |-> {}, llm |-> "unconfigured"]

NoRequest == [query |-> "q", top_k |-> 0, strategy |-> "hybrid",
              include_explanation |-> FALSE]

\* no retrieval is asked for in this behaviour
InitNoRetrieval ==
    /\ env = NoEnv
    /\ request = NoRequest
    /\ log = << >>

\* no request is running beside the caller
InitThreads ==
    /\ f_pc = "idle"
    /\ f_i = 1
    /\ f_cs = << >>
    /\ e_weights = NoReport
    /\ s_pc = [t \in Setters |-> Idle]
    /\ s_args = [t \in Setters |-> NoArgs]
    /\ s_total = [t \in Setters |-> Zero]
    /\ s_tmp = [t \in Setters |-> Zero]
    /\ s_pre = [t \in Setters |-> DefaultWeights]

InitW ==
    /\ InitWeights
    /\ InitThreads
    /\ InitNoRetrieval
    /\ inputs = NoInputs

NextW ==
    \E v \in WeightArgs, f \in WeightArgs, s \in WeightArgs : set_weights(W(v, f, s))

\* sequences of set_weights calls on one retriever
SpecWeights == InitW /\ [][NextW]_vars

-----------------------------------------------------------------------------
(* Fusion: HybridRetriever._combine_and_rerank *)

Min(a, b) == IF a < b THEN a ELSE b
Max(a, b) == IF a < b THEN b ELSE a

\* a strategy result: (node, score); a node is identified by node.id
Item(i, sc) == [id |-> i, score |-> sc]

\* position of node_id among the keys of the dict combined_scores, 0 if absent
KeyIndex(cs, node_id) ==
    IF \E i \in 1..Len(cs) : cs[i].id = node_id
    THEN CHOOSE i \in 1..Len(cs) : cs[i].id = node_id
    ELSE 0

\* combined_scores[node_id] = e: a new key goes last, an existing key keeps its place
DictSet(cs, e) ==
    LET i == KeyIndex(cs, e.id)
    IN  IF i = 0 THEN Append(cs, e) ELSE [cs EXCEPT ![i] = e]

\* lines 85-93: one iteration of the vector loop with the weight read at w
add_vector(cs, item, w) ==
    DictSet(cs, [id |-> item.id,
                 vector_score |-> item.score,
                 fulltext_score |-> Zero,
                 semantic_score |-> Zero,
                 combined_score |-> Mul(item.score, w)])

\* the fulltext loop overwriting an entry as the vector loop does
add_fulltext_overwrite(cs, item, w) ==
    DictSet(cs, [id |-> item.id,
                 vector_score |-> Zero,
                 fulltext_score |-> item.score,
                 semantic_score |-> Zero,
                 combined_score |-> Mul(item.score, w)])

\* lines 96-108: one iteration of the fulltext loop
add_fulltext(cs, item, w) ==
    LET i == KeyIndex(cs, item.id)
    IN  IF i # 0
        THEN [cs EXCEPT ![i].fulltext_score = item.score,
                        ![i].combined_score = Add(@, Mul(item.score, w))]
        ELSE DictSet(cs, [id |-> item.id,
                          vector_score |-> Zero,
                          fulltext_score |-> item.score,
                          semantic_score |-> Zero,
                          combined_score |-> Mul(item.score, w)])

\* a semantic loop that adds to the combined score of an existing entry but
\* does not record the semantic score in it
add_semantic_unrecorded(cs, item, w) ==
    LET i == KeyIndex(cs, item.id)
    IN  IF i # 0
        THEN [cs EXCEPT ![i].combined_score = Add(@, Mul(item.score, w))]
        ELSE DictSet(cs, [id |-> item.id,
                          vector_score |-> Zero,
                          fulltext_score |-> Zero,
                          semantic_score |-> item.score,
                          combined_score |-> Mul(item.score, w)])

\* lines 111-123: one iteration of the semantic loop
add_semantic(cs, item, w) ==
    LET i == KeyIndex(cs, item.id)
    IN  IF i # 0
        THEN [cs EXCEPT ![i].semantic_score = item.score,
                        ![i].combined_score = Add(@, Mul(item.score, w))]
        ELSE DictSet(cs, [id |-> item.id,
                          vector_score |-> Zero,
                          fulltext_score |-> Zero,
                          semantic_score |-> item.score,
                          combined_score |-> Mul(item.score, w)])

RECURSIVE vector_loop(_, _, _)
vector_loop(cs, results, w) ==
    IF results = << >> THEN cs
    ELSE vector_loop(add_vector(cs, Head(results), w), Tail(results), w)

RECURSIVE fulltext_loop(_, _, _)
fulltext_loop(cs, results, w) ==
    IF results = << >> THEN cs
    ELSE fulltext_loop(add_fulltext(cs, Head(results), w), Tail(results), w)

RECURSIVE semantic_loop(_, _, _)
semantic_loop(cs, results, w) ==
    IF results = << >> THEN cs
    ELSE semantic_loop(add_semantic(cs, Head(results), w), Tail(results), w)

\* a fusion that gives up when the vector strategy returned nothing
accumulate_vector_required(vector_results, fulltext_results, semantic_results, w) ==
    IF vector_results = << >> THEN << >>
    ELSE semantic_loop(
             fulltext_loop(
                 vector_loop(<< >>, vector_results, w.vector),
                 fulltext_results, w.fulltext),
             semantic_results, w.semantic)

\* lines 82-123: the dict combined_scores after the three loops, in insertion order
accumulate(vector_results, fulltext_results, semantic_results, w) ==
    semantic_loop(
        fulltext_loop(
            vector_loop(<< >>, vector_results, w.vector),
            fulltext_results, w.fulltext),
        semantic_results, w.semantic)

\* x goes before the first entry that has an equal or smaller score
RECURSIVE insert_desc_unstable(_, _)
insert_desc_unstable(sorted, x) ==
    IF sorted = << >> THEN <<x>>
    ELSE IF ~Less(x.combined_score, Head(sorted).combined_score)
         THEN <<x>> \o sorted
         ELSE <<Head(sorted)>> \o insert_desc_unstable(Tail(sorted), x)

\* x goes before the first entry that has a strictly smaller score, so entries
\* with equal scores keep the order in which they are inserted
RECURSIVE insert_desc(_, _)
insert_desc(sorted, x) ==
    IF sorted = << >> THEN <<x>>
    ELSE IF Less(Head(sorted).combined_score, x.combined_score)
         THEN <<x>> \o sorted
         ELSE <<Head(sorted)>> \o insert_desc(Tail(sorted), x)

RECURSIVE sort_from(_, _)
sort_from(sorted, rest) ==
    IF rest = << >> THEN sorted
    ELSE sort_from(insert_desc(sorted, Head(rest)), Tail(rest))

\* lines 126-130: sorted(combined_scores.values(), key=combined_score,
\* reverse=True); Python's sort is stable, also with reverse=True
sorted_results(cs) == sort_from(<< >>, cs)

\* a slice that stops one item early
slice_one_short(seq, k) == SubSeq(seq, 1, Min(k - 1, Len(seq)))

\* Python's seq[:k]: the first k items, and for k < 0 all but the last -k
slice_to(seq, k) ==
    IF k >= 0 THEN SubSeq(seq, 1, Min(k, Len(seq)))
    ELSE SubSeq(seq, 1, Max(Len(seq) + k, 0))

\* line 132: [(item['node'], item['combined_score']) for item in ...]
as_pairs(seq) == [i \in 1..Len(seq) |-> Item(seq[i].id, seq[i].combined_score)]

\* lines 125-132 applied to the dict
rerank(cs, top_k) == as_pairs(slice_to(sorted_results(cs), top_k))

\* HybridRetriever._combine_and_rerank on the call's arguments
combine_and_rerank ==
    LET cs == accumulate(inputs.vector_results, inputs.fulltext_results,
                         inputs.semantic_results, weights)
    IN  /\ op' = [name |-> "_combine_and_rerank", args |-> NoArgs, pre |-> weights,
                  total |-> One, status |-> "ok", entries |-> cs,
                  result |-> rerank(cs, inputs.top_k)]
        /\ UNCHANGED <<vector_weight, fulltext_weight, semantic_weight, inputs,
                       calls, allPositive, repeated>>
        /\ UNCHANGED <<threadVars, envVars>>

\* document ids and raw scores of the enumerated strategy results
DocIds == {1, 2}
ScoreValues == {R(3, 5), R(4, 5)}
Pairs == {Item(i, sc) : i \in DocIds, sc \in ScoreValues}
TopKs == {-1, 0, 1, 2}

\* section 8 of the design: three strategies, four distinct documents each, raw
\* scores 0.9, 0.8, 0.7, 0.6, top_k = 3
ScenarioScores == <<R(9, 10), R(4, 5), R(7, 10), R(3, 5)>>
ScenarioList(base) == [i \in 1..4 |-> Item(base + i, ScenarioScores[i])]
EndToEndScenario ==
    [vector_results |-> ScenarioList(10), fulltext_results |-> ScenarioList(20),
     semantic_results |-> ScenarioList(30), top_k |-> 3]

\* three documents that the strategies rank differently; document 1 is in all
\* three lists, documents 2 and 3 in two
OverlapScenario ==
    [vector_results |-> <<Item(1, R(4, 5)), Item(2, R(3, 5))>>,
     fulltext_results |-> <<Item(2, R(4, 5)), Item(1, R(3, 5)), Item(3, R(3, 5))>>,
     semantic_results |-> <<Item(3, R(4, 5)), Item(1, R(4, 5))>>,
     top_k |-> 2]

\* the weights the fusion calls are made under: set_weights(0.4, 0.4, 0.4),
\* set_weights(0.4, 0.4, 0) and set_weights(0.4, 0, 0)
FusionWeightArgs ==
    {W(Some(R(2, 5)), Some(R(2, 5)), Some(R(2, 5))),
     W(Some(R(2, 5)), Some(R(2, 5)), Some(Zero)),
     W(Some(R(2, 5)), Some(Zero), Some(Zero))}

InitInputs ==
    \/ \E a \in 0..MaxLen : \E b \in 0..(MaxLen - a) : \E c \in 0..(MaxLen - a - b) :
       \E vr \in [1..a -> Pairs], fr \in [1..b -> Pairs], sr \in [1..c -> Pairs] :
       \E k \in TopKs :
          inputs = [vector_results |-> vr, fulltext_results |-> fr,
                    semantic_results |-> sr, top_k |-> k]
    \/ inputs \in {EndToEndScenario, OverlapScenario}

Init ==
    /\ InitWeights
    /\ InitThreads
    /\ InitNoRetrieval
    /\ InitInputs

Next ==
    \/ \E a \in FusionWeightArgs : set_weights(a)
    \/ combine_and_rerank

\* one retriever: set_weights calls and a fusion call on given strategy results
Spec == Init /\ [][Next]_vars

\* set_weights(vector_weight=0.8) and set_weights(fulltext_weight=-1), which
\* change one weight and leave the other two to the normalisation, and
\* set_weights(0.3, 0.3), which makes the three weights equal
MonotoneWeightArgs ==
    {W(Some(R(4, 5)), None, None),
     W(None, Some(R(-1, 1)), None),
     W(Some(R(3, 10)), Some(R(3, 10)), None)}

NextMonotone ==
    \/ \E a \in MonotoneWeightArgs : set_weights(a)
    \/ combine_and_rerank

\* one retriever: fusion calls on given strategy results between set_weights
\* calls that change single weights
SpecMonotone == Init /\ [][NextMonotone]_vars

-----------------------------------------------------------------------------
(* Requests running concurrently on one retriever.  A thread switch can fall   *)
(* between any two reads or writes of an attribute of the shared retriever.    *)

NextKey(k) ==
    IF k = "vector" THEN "fulltext" ELSE IF k = "fulltext" THEN "semantic" ELSE "-"

\* self.<k>_weight = x
StoreWeight(k, x) ==
    /\ vector_weight' = IF k = "vector" THEN x ELSE vector_weight
    /\ fulltext_weight' = IF k = "fulltext" THEN x ELSE fulltext_weight
    /\ semantic_weight' = IF k = "semantic" THEN x ELSE semantic_weight

\* set_weights is entered with arguments a (line 33)
setter_call(t, a) ==
    /\ s_pc[t] = Idle
    /\ s_pc' = [s_pc EXCEPT ![t] = <<"assign", "vector">>]
    /\ s_args' = [s_args EXCEPT ![t] = a]
    /\ s_pre' = [s_pre EXCEPT ![t] = weights]
    /\ UNCHANGED <<envVars, seqVars, f_pc, f_i, f_cs, e_weights, s_total, s_tmp>>

\* lines 36-41: one of the three conditional assignments
setter_assign(t) ==
    \E k \in {"vector", "fulltext", "semantic"} :
        /\ s_pc[t] = <<"assign", k>>
        /\ StoreWeight(k, IF s_args[t][k].some THEN s_args[t][k].val ELSE weights[k])
        /\ s_pc' = [s_pc EXCEPT ![t] = IF k = "semantic" THEN <<"sum", "vector">>
                                       ELSE <<"assign", NextKey(k)>>]
        /\ UNCHANGED <<envVars, inputs, op, calls, allPositive, repeated,
                       f_pc, f_i, f_cs, e_weights, s_args, s_total, s_tmp, s_pre>>

\* line 44: one of the three attribute reads that add up to total_weight
setter_sum(t) ==
    \E k \in {"vector", "fulltext", "semantic"} :
        /\ s_pc[t] = <<"sum", k>>
        /\ s_total' = [s_total EXCEPT ![t] = IF k = "vector" THEN weights[k]
                                             ELSE Add(@, weights[k])]
        /\ s_pc' = [s_pc EXCEPT ![t] = IF k = "semantic" THEN <<"read", "vector">>
                                       ELSE <<"sum", NextKey(k)>>]
        /\ UNCHANGED <<envVars, seqVars, f_pc, f_i, f_cs, e_weights, s_args, s_tmp, s_pre>>

\* lines 45-47: the read of self.<k>_weight for the in-place division
setter_read(t) ==
    \E k \in {"vector", "fulltext", "semantic"} :
        /\ s_pc[t] = <<"read", k>>
        /\ s_tmp' = [s_tmp EXCEPT ![t] = weights[k]]
        /\ s_pc' = [s_pc EXCEPT ![t] = <<"div", k>>]
        /\ UNCHANGED <<envVars, seqVars, f_pc, f_i, f_cs, e_weights, s_args, s_total, s_pre>>

\* lines 45-47: the division and the write back; a ZeroDivisionError ends the call
setter_div(t) ==
    \E k \in {"vector", "fulltext", "semantic"} :
        LET d == truediv(s_tmp[t], s_total[t])
        IN  /\ s_pc[t] = <<"div", k>>
            /\ IF d.ok
               THEN /\ StoreWeight(k, d.val)
                    /\ s_pc' = [s_pc EXCEPT ![t] = IF k = "semantic" THEN Done
                                                   ELSE <<"read", NextKey(k)>>]
               ELSE /\ StoreWeight(k, weights[k])
                    /\ s_pc' = [s_pc EXCEPT ![t] = Raised]
            /\ UNCHANGED <<envVars, inputs, op, calls, allPositive, repeated,
                           f_pc, f_i, f_cs, e_weights, s_args, s_total, s_tmp, s_pre>>

\* line 82: combined_scores = {}
fusion_begin ==
    /\ f_pc = "idle"
    /\ f_pc' = "vector"
    /\ f_i' = 1
    /\ f_cs' = << >>
    /\ UNCHANGED <<envVars, seqVars, e_weights, s_pc, s_args, s_total, s_tmp, s_pre>>

\* lines 85-93: one iteration of the vector loop, or its end
fusion_vector ==
    /\ f_pc = "vector"
    /\ IF f_i <= Len(inputs.vector_results)
       THEN /\ f_cs' = add_vector(f_cs, inputs.vector_results[f_i], vector_weight)
            /\ f_i' = f_i + 1
            /\ f_pc' = f_pc
       ELSE /\ f_pc' = "fulltext"
            /\ f_i' = 1
            /\ f_cs' = f_cs
    /\ UNCHANGED <<envVars, seqVars, e_weights, s_pc, s_args, s_total, s_tmp, s_pre>>

\* lines 96-108: one iteration of the fulltext loop, or its end
fusion_fulltext ==
    /\ f_pc = "fulltext"
    /\ IF f_i <= Len(inputs.fulltext_results)
       THEN /\ f_cs' = add_fulltext(f_cs, inputs.fulltext_results[f_i], fulltext_weight)
            /\ f_i' = f_i + 1
            /\ f_pc' = f_pc
       ELSE /\ f_pc' = "semantic"
            /\ f_i' = 1
            /\ f_cs' = f_cs
    /\ UNCHANGED <<envVars, seqVars, e_weights, s_pc, s_args, s_total, s_tmp, s_pre>>

\* lines 111-123: one iteration of the semantic loop, or its end
fusion_semantic ==
    /\ f_pc = "semantic"
    /\ IF f_i <= Len(inputs.semantic_results)
       THEN /\ f_cs' = add_semantic(f_cs, inputs.semantic_results[f_i], semantic_weight)
            /\ f_i' = f_i + 1
            /\ f_pc' = f_pc
       ELSE /\ f_pc' = "sort"
            /\ f_i' = 1
            /\ f_cs' = f_cs
    /\ UNCHANGED <<envVars, seqVars, e_weights, s_pc, s_args, s_total, s_tmp, s_pre>>

\* lines 125-132: sort, cut and return
fusion_return ==
    /\ f_pc = "sort"
    /\ f_pc' = "done"
    /\ op' = [name |-> "_combine_and_rerank", args |-> NoArgs, pre |-> weights,
              total |-> One, status |-> "ok", entries |-> f_cs,
              result |-> rerank(f_cs, inputs.top_k)]
    /\ UNCHANGED <<envVars, vector_weight, fulltext_weight, semantic_weight, inputs,
                   calls, allPositive, repeated, f_i, f_cs, e_weights, s_pc, s_args,
                   s_total, s_tmp, s_pre>>

InitConc ==
    /\ InitWeights
    /\ InitThreads
    /\ InitNoRetrieval
    /\ InitInputs
    /\ inputs.top_k = 2

NextConc ==
    \/ \E a \in FusionWeightArgs : setter_call(1, a)
    \/ setter_assign(1)
    \/ setter_sum(1)
    \/ setter_read(1)
    \/ setter_div(1)
    \/ fusion_begin
    \/ fusion_vector
    \/ fusion_fulltext
    \/ fusion_semantic
    \/ fusion_return

\* one fusion call and one set_weights call of another request, interleaved
SpecConc == InitConc /\ [][NextConc]_vars

\* the position of explain_retrieval before it reads the weight of strategy k
ReportOf(k) == IF k = "fulltext" THEN "report_fulltext" ELSE "report_semantic"

\* lines 147-149: after _hybrid_retrieve has returned, explain_retrieval reads
\* one of the three weights into the strategy_weights it reports
explain_report ==
    \E k \in {"vector", "fulltext", "semantic"} :
        /\ f_pc = IF k = "vector" THEN "done" ELSE ReportOf(k)
        /\ e_weights' = [e_weights EXCEPT ![k] = weights[k]]
        /\ f_pc' = IF k = "semantic" THEN "explained" ELSE ReportOf(NextKey(k))
        /\ UNCHANGED <<envVars, seqVars, f_i, f_cs, s_pc, s_args, s_total, s_tmp, s_pre>>

NextExplainConc ==
    \/ NextConc
    \/ explain_report

\* the fusion of one explain_retrieval call and the weights it reports, beside
\* a set_weights call of another request
SpecExplainConc == InitConc /\ [][NextExplainConc]_vars

\* the calls two requests make at the same time: set_weights(0.4, 0.4, 0.4),
\* set_weights(0.4, 0.4, 0) and set_weights(vector_weight=0.3)
OverlapWeightArgs ==
    {W(Some(R(2, 5)), Some(R(2, 5)), Some(R(2, 5))),
     W(Some(R(2, 5)), Some(R(2, 5)), Some(Zero)),
     W(Some(R(3, 10)), None, None)}

InitSetters ==
    /\ InitWeights
    /\ InitThreads
    /\ InitNoRetrieval
    /\ inputs = NoInputs

NextSetters ==
    \E t \in Setters :
        \/ \E a \in OverlapWeightArgs : setter_call(t, a)
        \/ setter_assign(t)
        \/ setter_sum(t)
        \/ setter_read(t)
        \/ setter_div(t)

\* two set_weights calls of two requests on one retriever, interleaved
SpecSetters == InitSetters /\ [][NextSetters]_vars

-----------------------------------------------------------------------------
(* Retrieval: HybridRetriever.retrieve, _hybrid_retrieve, explain_retrieval *)

Strategies == {"vector", "fulltext", "semantic"}

\* a call the retriever makes: a search of size k, or the fusion
Call(fn, k) == [fn |-> fn, k |-> k]

\* the first k rows of a ranking: ORDER BY score DESC LIMIT k
Limit(rows, k) == SubSeq(rows, 1, Min(k, Len(rows)))

\* Neo4jVectorStore.vector_search(query, k); a backend that is down raises
vector_search(k) ==
    IF "vector" \in env.failing THEN [ok |-> FALSE, val |-> << >>]
    ELSE [ok |-> TRUE, val |-> Limit(env.vector, k)]

\* Neo4jFulltextRetriever.fulltext_search(query, "documentFulltextIndex", k)
fulltext_search(k) ==
    IF "fulltext" \in env.failing THEN [ok |-> FALSE, val |-> << >>]
    ELSE [ok |-> TRUE, val |-> Limit(env.fulltext, k)]

\* Neo4jFulltextRetriever.semantic_search(query, "Document", "text", k)
semantic_search(k) ==
    IF "semantic" \in env.failing THEN [ok |-> FALSE, val |-> << >>]
    ELSE [ok |-> TRUE, val |-> Limit(env.semantic, k)]

\* what a call returns to its caller, or the exception it raises, and the calls
\* it made
Returned(val, made) == [status |-> "ok", result |-> val, log |-> made]
Raises(exc, msg, made) == [status |-> exc, result |-> msg, log |-> made]

\* the strategies asked for top_k rows
overfetch_none(top_k) == top_k

\* lines 65-67: each strategy is asked for top_k * 2 rows
overfetch(top_k) == top_k * 2

\* a failed strategy counted as an empty list
hybrid_retrieve_degrading(top_k, w) ==
    LET v == vector_search(overfetch(top_k))
        f == fulltext_search(overfetch(top_k))
        s == semantic_search(overfetch(top_k))
    IN  Returned(rerank(accumulate(v.val, f.val, s.val, w), top_k),
                 <<Call("vector", overfetch(top_k)), Call("fulltext", overfetch(top_k)),
                   Call("semantic", overfetch(top_k)), Call("fuse", top_k)>>)

\* HybridRetriever._hybrid_retrieve: the three searches in order, then the
\* fusion; an exception of a search is not caught
hybrid_retrieve(top_k, w) ==
    LET v == vector_search(overfetch(top_k))
        f == fulltext_search(overfetch(top_k))
        s == semantic_search(overfetch(top_k))
        cv == <<Call("vector", overfetch(top_k))>>
        cf == Append(cv, Call("fulltext", overfetch(top_k)))
        csem == Append(cf, Call("semantic", overfetch(top_k)))
    IN  IF ~v.ok THEN Raises("DatabaseError", <<"vector">>, cv)
        ELSE IF ~f.ok THEN Raises("DatabaseError", <<"fulltext">>, cf)
        ELSE IF ~s.ok THEN Raises("DatabaseError", <<"semantic">>, csem)
        ELSE Returned(rerank(accumulate(v.val, f.val, s.val, w), top_k),
                      Append(csem, Call("fuse", top_k)))

\* the outcome of one search as the outcome of the call that made it
single(strategy, r, k) ==
    IF r.ok THEN Returned(r.val, <<Call(strategy, k)>>)
    ELSE Raises("DatabaseError", <<strategy>>, <<Call(strategy, k)>>)

\* scores multiplied by the strategy's weight
scaled(rows, w) == [i \in 1..Len(rows) |-> Item(rows[i].id, Mul(rows[i].score, w))]

\* a dispatch that treats every other strategy value as "hybrid"
retrieve_default_hybrid(top_k, strategy, w) ==
    IF strategy = "vector" THEN single("vector", vector_search(top_k), top_k)
    ELSE IF strategy = "fulltext" THEN single("fulltext", fulltext_search(top_k), top_k)
    ELSE IF strategy = "semantic" THEN single("semantic", semantic_search(top_k), top_k)
    ELSE hybrid_retrieve(top_k, w)

\* a dispatch that weights the scores of a single strategy
retrieve_weighted(top_k, strategy, w) ==
    IF strategy = "vector"
    THEN LET r == vector_search(top_k)
         IN  single("vector", [r EXCEPT !.val = scaled(@, w.vector)], top_k)
    ELSE IF strategy = "fulltext"
    THEN LET r == fulltext_search(top_k)
         IN  single("fulltext", [r EXCEPT !.val = scaled(@, w.fulltext)], top_k)
    ELSE IF strategy = "semantic"
    THEN LET r == semantic_search(top_k)
         IN  single("semantic", [r EXCEPT !.val = scaled(@, w.semantic)], top_k)
    ELSE IF strategy = "hybrid" THEN hybrid_retrieve(top_k, w)
    ELSE Raises("ValueError", <<"Unknown strategy: ", strategy>>, << >>)

\* HybridRetriever.retrieve(query, top_k, strategy) under the weights w
retrieve_outcome(top_k, strategy, w) ==
    IF strategy = "vector" THEN single("vector", vector_search(top_k), top_k)
    ELSE IF strategy = "fulltext" THEN single("fulltext", fulltext_search(top_k), top_k)
    ELSE IF strategy = "semantic" THEN single("semantic", semantic_search(top_k), top_k)
    ELSE IF strategy = "hybrid" THEN hybrid_retrieve(top_k, w)
    ELSE Raises("ValueError", <<"Unknown strategy: ", strategy>>, << >>)

\* an explanation whose fused block is computed from the three blocks shown
explain_from_blocks(top_k, w) ==
    LET v == vector_search(top_k)
        f == fulltext_search(top_k)
        s == semantic_search(top_k)
        cv == <<Call("vector", top_k)>>
        cf == Append(cv, Call("fulltext", top_k))
        csem == Append(cf, Call("semantic", top_k))
        fused == rerank(accumulate(v.val, f.val, s.val, w), top_k)
    IN  IF ~v.ok THEN Raises("DatabaseError", <<"vector">>, cv)
        ELSE IF ~f.ok THEN Raises("DatabaseError", <<"fulltext">>, cf)
        ELSE IF ~s.ok THEN Raises("DatabaseError", <<"semantic">>, csem)
        ELSE Returned([query |-> request.query,
                       strategy_weights |-> w,
                       vector_results |-> v.val,
                       fulltext_results |-> f.val,
                       semantic_results |-> s.val,
                       hybrid_results |-> fused,
                       total_results |-> Len(fused)],
                      Append(csem, Call("fuse", top_k)))

\* HybridRetriever.explain_retrieval(query, top_k) under the weights w
explain_outcome(top_k, w) ==
    LET v == vector_search(top_k)
        f == fulltext_search(top_k)
        s == semantic_search(top_k)
        cv == <<Call("vector", top_k)>>
        cf == Append(cv, Call("fulltext", top_k))
        csem == Append(cf, Call("semantic", top_k))
        h == hybrid_retrieve(top_k, w)
    IN  IF ~v.ok THEN Raises("DatabaseError", <<"vector">>, cv)
        ELSE IF ~f.ok THEN Raises("DatabaseError", <<"fulltext">>, cf)
        ELSE IF ~s.ok THEN Raises("DatabaseError", <<"semantic">>, csem)
        ELSE IF h.status # "ok" THEN Raises(h.status, h.result, csem \o h.log)
        ELSE Returned([query |-> request.query,
                       strategy_weights |-> w,
                       vector_results |-> v.val,
                       fulltext_results |-> f.val,
                       semantic_results |-> s.val,
                       hybrid_results |-> h.result,
                       total_results |-> Len(h.result)],
                      csem \o h.log)

\* a retrieve that serves a single strategy by storing weight 1 for it and 0
\* for the other two before it fuses
retrieve_via_weights ==
    LET only == W(IF request.strategy = "vector" THEN One ELSE Zero,
                  IF request.strategy = "fulltext" THEN One ELSE Zero,
                  IF request.strategy = "semantic" THEN One ELSE Zero)
        w == IF request.strategy \in Strategies THEN only ELSE weights
        out == retrieve_outcome(request.top_k, request.strategy, w)
    IN  /\ op' = [name |-> "retrieve", args |-> NoArgs, pre |-> weights,
                  total |-> One, status |-> out.status, entries |-> << >>,
                  result |-> out.result]
        /\ log' = out.log
        /\ vector_weight' = w.vector
        /\ fulltext_weight' = w.fulltext
        /\ semantic_weight' = w.semantic
        /\ UNCHANGED <<inputs, calls, allPositive, repeated, env, request>>
        /\ UNCHANGED threadVars

\* a call of retrieve with the arguments of the request
retrieve ==
    LET out == retrieve_outcome(request.top_k, request.strategy, weights)
    IN  /\ op' = [name |-> "retrieve", args |-> NoArgs, pre |-> weights,
                  total |-> One, status |-> out.status, entries |-> << >>,
                  result |-> out.result]
        /\ log' = out.log
        /\ UNCHANGED <<vector_weight, fulltext_weight, semantic_weight, inputs,
                       calls, allPositive, repeated, env, request>>
        /\ UNCHANGED threadVars

\* a call of explain_retrieval with the query and top_k of the request
explain_retrieval ==
    LET out == explain_outcome(request.top_k, weights)
    IN  /\ op' = [name |-> "explain_retrieval", args |-> NoArgs, pre |-> weights,
                  total |-> One, status |-> out.status, entries |-> << >>,
                  result |-> out.result]
        /\ log' = out.log
        /\ UNCHANGED <<vector_weight, fulltext_weight, semantic_weight, inputs,
                       calls, allPositive, repeated, env, request>>
        /\ UNCHANGED threadVars

\* a ranking as a search returns it: no node twice, scores not increasing
IsRanked(rows) ==
    \A i, j \in 1..Len(rows) :
        i < j => (rows[i].id # rows[j].id /\ ~Less(rows[i].score, rows[j].score))

StrategyArgs == {"vector", "fulltext", "semantic", "hybrid", "bogus"}

\* the result sizes asked for
RetrieveTopKs == {1, 2}

\* the backends that are down: none, or one of the three
FailingSets == {{}} \cup {{s} : s \in Strategies}

\* retrieve and explain_retrieval are called under the default weights and
\* after set_weights(0.4, 0.4, 0)
RetrieveWeightArgs == {W(Some(R(2, 5)), Some(R(2, 5)), Some(Zero))}

InitRankings ==
    \/ \E a \in 0..MaxLen : \E b \in 0..(MaxLen - a) : \E c \in 0..(MaxLen - a - b) :
       \E vr \in [1..a -> Pairs], fr \in [1..b -> Pairs], sr \in [1..c -> Pairs] :
       \E down \in FailingSets :
          /\ IsRanked(vr) /\ IsRanked(fr) /\ IsRanked(sr)
          /\ env = [vector |-> vr, fulltext |-> fr, semantic |-> sr,
                    failing |-> down, llm |-> "unconfigured"]
    \/ \E sc \in {EndToEndScenario, OverlapScenario} : \E down \in FailingSets :
          env = [vector |-> sc.vector_results, fulltext |-> sc.fulltext_results,
                 semantic |-> sc.semantic_results, failing |-> down,
                 llm |-> "unconfigured"]

InitRetrieve ==
    /\ InitWeights
    /\ InitThreads
    /\ inputs = NoInputs
    /\ InitRankings
    /\ \E k \in RetrieveTopKs, st \in StrategyArgs :
          request = [query |-> "q", top_k |-> k, strategy |-> st,
                     include_explanation |-> FALSE]
    /\ log = << >>

NextRetrieve ==
    \/ \E a \in RetrieveWeightArgs : set_weights(a)
    \/ retrieve
    \/ explain_retrieval

\* one retriever over given backends: set_weights, retrieve and explain_retrieval
SpecRetrieve == InitRetrieve /\ [][NextRetrieve]_vars

-----------------------------------------------------------------------------
(* The pipeline: LLMPipeline.process_query, _prepare_context, _generate_response *)

\* settings.max_context_length
max_context_length == 4000

\* the number of characters of a document's text: one long document, the others
\* short
TextLength(i) == IF i = 1 THEN 3990 ELSE 120

\* "Document {i+1} (Score: {score:.3f}):\n{text}\n" for fewer than ten documents
\* and scores below 10: 27 characters, the text and a newline
PartLength(doc) == 27 + TextLength(doc.id) + 1

RECURSIVE SumParts(_)
SumParts(docs) ==
    IF docs = << >> THEN 0 ELSE PartLength(Head(docs)) + SumParts(Tail(docs))

\* "\n".join(context_parts): one newline between two parts
JoinedLength(docs) == IF docs = << >> THEN 0 ELSE SumParts(docs) + Len(docs) - 1

\* LLMPipeline._prepare_context: the documents rendered in order and the length
\* of the string returned; a string longer than max_context_length is cut to
\* its first max_context_length characters and "..." is appended
prepare_context(docs) ==
    LET n == JoinedLength(docs)
    IN  [docs |-> docs,
         truncated |-> n > max_context_length,
         length |-> IF n > max_context_length THEN max_context_length + 3 ELSE n]

\* LLMPipeline._generate_response: the fallback text without a client, the
\* completion of the service for the prompt made of query and context, and the
\* fallback text naming the error when the service call raises
generate_response(query, context) ==
    IF env.llm = "unconfigured"
    THEN Returned([kind |-> "fallback", query |-> query, context |-> context,
                   note |-> "OpenAI API key not configured"], << >>)
    ELSE IF env.llm = "fails"
    THEN Returned([kind |-> "fallback", query |-> query, context |-> context,
                   note |-> "Error generating LLM response: APIError"],
                  <<Call("generate", context.length)>>)
    ELSE Returned([kind |-> "completion", query |-> query, context |-> context,
                   note |-> "-"], <<Call("generate", context.length)>>)

\* lines 60-65: the dict returned when any step raised
error_payload(msg) ==
    [error |-> msg, query |-> request.query, strategy |-> request.strategy]

\* a process_query that builds the explanation after its try block, so that an
\* exception of explain_retrieval leaves the call
process_outcome_late_explanation(w) ==
    LET r == retrieve_outcome(request.top_k, request.strategy, w)
        context == prepare_context(r.result)
        g == generate_response(request.query, context)
        e == explain_outcome(request.top_k, w)
        result == [query |-> request.query,
                   strategy |-> request.strategy,
                   retrieved_documents |-> Len(r.result),
                   response |-> g.result,
                   context_length |-> context.length]
    IN  IF r.status # "ok" THEN Returned(error_payload(r.result), r.log)
        ELSE IF g.status # "ok"
        THEN Returned(error_payload(g.result), r.log \o g.log)
        ELSE IF ~request.include_explanation
        THEN Returned(result, r.log \o g.log)
        ELSE IF e.status # "ok"
        THEN Raises(e.status, e.result, r.log \o g.log \o e.log)
        ELSE Returned([query |-> request.query,
                       strategy |-> request.strategy,
                       retrieved_documents |-> Len(r.result),
                       response |-> g.result,
                       context_length |-> context.length,
                       explanation |-> e.result],
                      r.log \o g.log \o e.log)

\* LLMPipeline.process_query(query, strategy, top_k, include_explanation): the
\* dict it returns and the calls it made
process_outcome(w) ==
    LET r == retrieve_outcome(request.top_k, request.strategy, w)
        context == prepare_context(r.result)
        g == generate_response(request.query, context)
        e == explain_outcome(request.top_k, w)
        result == [query |-> request.query,
                   strategy |-> request.strategy,
                   retrieved_documents |-> Len(r.result),
                   response |-> g.result,
                   context_length |-> context.length]
    IN  IF r.status # "ok" THEN Returned(error_payload(r.result), r.log)
        ELSE IF g.status # "ok"
        THEN Returned(error_payload(g.result), r.log \o g.log)
        ELSE IF ~request.include_explanation
        THEN Returned(result, r.log \o g.log)
        ELSE IF e.status # "ok"
        THEN Returned(error_payload(e.result), r.log \o g.log \o e.log)
        ELSE Returned([query |-> request.query,
                       strategy |-> request.strategy,
                       retrieved_documents |-> Len(r.result),
                       response |-> g.result,
                       context_length |-> context.length,
                       explanation |-> e.result],
                      r.log \o g.log \o e.log)

\* a call of process_query with the arguments of the request
process_query ==
    LET out == process_outcome(weights)
    IN  /\ op' = [name |-> "process_query", args |-> NoArgs, pre |-> weights,
                  total |-> One, status |-> out.status, entries |-> << >>,
                  result |-> out.result]
        /\ log' = out.log
        /\ UNCHANGED <<vector_weight, fulltext_weight, semantic_weight, inputs,
                       calls, allPositive, repeated, env, request>>
        /\ UNCHANGED threadVars

\* the completion service: no client, a client that answers, a client whose
\* call raises
LlmStates == {"unconfigured", "ok", "fails"}

\* the rankings the pipeline runs on: no document at all, and the two scenarios
PipelineRankings ==
    {[vector_results |-> << >>, fulltext_results |-> << >>,
      semantic_results |-> << >>, top_k |-> 0],
     EndToEndScenario, OverlapScenario}

InitPipeline ==
    /\ InitWeights
    /\ InitThreads
    /\ inputs = NoInputs
    /\ \E sc \in PipelineRankings : \E down \in FailingSets : \E llm \in LlmStates :
          env = [vector |-> sc.vector_results, fulltext |-> sc.fulltext_results,
                 semantic |-> sc.semantic_results, failing |-> down, llm |-> llm]
    /\ \E k \in RetrieveTopKs, st \in StrategyArgs, ex \in BOOLEAN :
          request = [query |-> "q", top_k |-> k, strategy |-> st,
                     include_explanation |-> ex]
    /\ log = << >>

NextPipeline ==
    \/ \E a \in RetrieveWeightArgs : set_weights(a)
    \/ process_query

\* one pipeline over given backends and a completion service
SpecPipeline == InitPipeline /\ [][NextPipeline]_vars

-----------------------------------------------------------------------------
(* Embeddings: EmbeddingGenerator.generate_embedding, _generate_random_embedding *)

\* the texts embedded; hash("") is 0 in every process
Texts == {"", "a", "b"}

\* the values hash(text) takes for a non-empty str: CPython salts str hashes
\* with a key drawn when the process starts, so the value is fixed within a
\* process and differs from one process to the next
HashValues == {-1, 7}

\* the hash functions a process can start with
Hashes == {h \in [Texts -> HashValues \cup {0}] :
              /\ h[""] = 0
              /\ \A t \in Texts \ {""} : h[t] \in HashValues}

\* settings.openai_api_key (lines 14-17) and the state of the remote service
Clients == {"none", "failing", "ok"}

\* x % (2**32) for a Python int x with |x| < 2**31, as two 16-bit limbs
\* <<high, low>>; the result of % has the sign of the divisor
mod_2_32(x) ==
    IF x >= 0
    THEN <<x \div 65536, x % 65536>>
    ELSE <<65535 - ((-x - 1) \div 65536), 65535 - ((-x - 1) % 65536)>>

\* lines 41-44: the seed is hash(text) % (2**32); numpy's generator seeded
\* with it draws the dimension numbers, so the vector is the one of that seed
generate_random_embedding(text, hash) ==
    LET seed == mod_2_32(hash[text])
    IN  [kind |-> "normal", seed |-> seed, dimension |-> 1536]

\* lines 21-33: without a client the random embedding; with one the remote
\* embedding, and the random embedding when the request raises
embedding_of(text, client, hash) ==
    IF client = "none" THEN generate_random_embedding(text, hash)
    ELSE IF client = "ok" THEN [kind |-> "remote", seed |-> <<0, 0>>, dimension |-> 1536]
    ELSE generate_random_embedding(text, hash)

\* one call of generate_embedding in the running process
generate_embedding ==
    \E text \in Texts :
        /\ Len(log) < MaxEmbeddings
        /\ request' = [text |-> text]
        /\ log' = Append(log, [run |-> env.run, text |-> text, client |-> env.client,
                               vector |-> embedding_of(text, env.client, env.hash)])
        /\ UNCHANGED <<seqVars, threadVars, env>>

\* the program ends and is started again: a new process with a new hash salt
\* and the generator constructed anew
restart ==
    /\ env.run < MaxRuns
    /\ \E h \in Hashes : \E c \in Clients :
          env' = [run |-> env.run + 1, hash |-> h, client |-> c]
    /\ UNCHANGED <<seqVars, threadVars, request, log>>

InitEmbedding ==
    /\ InitWeights
    /\ InitThreads
    /\ inputs = NoInputs
    /\ \E h \in Hashes : \E c \in Clients : env = [run |-> 1, hash |-> h, client |-> c]
    /\ request = [text |-> ""]
    /\ log = << >>

NextEmbedding ==
    \/ generate_embedding
    \/ restart

\* the embeddings generated over some runs of the program
SpecEmbedding == InitEmbedding /\ [][NextEmbedding]_vars

-----------------------------------------------------------------------------
(* Ingestion: Neo4jIngestor.run_cypher_file, ingest *)

\* A line of a script is the sequence of its characters without the newline;
\* a command is the sequence of characters handed to session.run.

\* str.strip(): leading and trailing blanks removed
RECURSIVE lstrip(_)
lstrip(s) == IF s # << >> /\ Head(s) = " " THEN lstrip(Tail(s)) ELSE s

RECURSIVE rstrip(_)
rstrip(s) ==
    IF s # << >> /\ s[Len(s)] = " " THEN rstrip(SubSeq(s, 1, Len(s) - 1)) ELSE s

strip(s) == rstrip(lstrip(s))

\* str.startswith and str.endswith
startswith(s, prefix) ==
    Len(s) >= Len(prefix) /\ SubSeq(s, 1, Len(prefix)) = prefix

endswith(s, suffix) ==
    Len(s) >= Len(suffix) /\ SubSeq(s, Len(s) - Len(suffix) + 1, Len(s)) = suffix

\* the three scripts in the order ingest runs them (lines 61, 64, 67)
Scripts == <<"drop_indexes", "create_indexes", "load_data">>

\* lines 42-53: session.run(command) either returns or raises; the exception
\* is caught and printed.  The database rejects a command that holds one of
\* the characters in rejects.
run_command(script, command, rejects) ==
    [script |-> script, command |-> command,
     status |-> IF \E i \in DOMAIN command : command[i] \in rejects
                THEN "failed" ELSE "ok"]

\* lines 28-56: the loop over the lines from line i on, with current_command
\* and the commands run so far
RECURSIVE run_lines(_, _, _, _, _, _)
run_lines(script, lines, i, current_command, made, rejects) ==
    IF i > Len(lines) THEN made
    ELSE LET line == strip(lines[i])
         IN  IF line = << >> \/ startswith(line, <<"/", "/">>)
                             \/ startswith(line, <<"-", "-">>)
             THEN run_lines(script, lines, i + 1, current_command, made, rejects)
             ELSE LET longer == current_command \o line \o <<" ">>
                  IN  IF endswith(line, <<";">>)
                      THEN LET command == strip(longer)
                           IN  run_lines(script, lines, i + 1, << >>,
                                   IF command # << >>
                                   THEN Append(made, run_command(script, command, rejects))
                                   ELSE made,
                                   rejects)
                      ELSE run_lines(script, lines, i + 1, longer, made, rejects)

\* lines 22-56: the commands one script makes the session run, in order
run_cypher_file(script, lines, rejects) ==
    run_lines(script, lines, 1, << >>, << >>, rejects)

\* a variant that gives up at the first script in which a command failed
ingest_outcome_stop_on_failure(files, rejects) ==
    LET ran(k) == run_cypher_file(Scripts[k], files[Scripts[k]], rejects)
        bad(k) == \E i \in DOMAIN ran(k) : ran(k)[i].status = "failed"
    IN  IF bad(1) THEN ran(1)
        ELSE IF bad(2) THEN ran(1) \o ran(2)
        ELSE ran(1) \o ran(2) \o ran(3)

\* lines 59-67: the three scripts in one session
ingest_outcome(files, rejects) ==
    run_cypher_file(Scripts[1], files[Scripts[1]], rejects)
        \o run_cypher_file(Scripts[2], files[Scripts[2]], rejects)
        \o run_cypher_file(Scripts[3], files[Scripts[3]], rejects)

\* lines 58-69: ingest(); log holds the commands the session was given
ingest ==
    /\ op' = [name |-> "ingest", args |-> NoArgs, pre |-> weights, total |-> One,
              status |-> "ok", entries |-> << >>, result |-> << >>]
    /\ log' = ingest_outcome(env.files, env.rejects)
    /\ UNCHANGED <<vector_weight, fulltext_weight, semantic_weight, inputs,
                   calls, allPositive, repeated, env, request>>
    /\ UNCHANGED threadVars

\* the lines the scripts are written with: a blank line, a comment that ends
\* in a semicolon, a line that goes on, a line that ends a statement and is
\* surrounded by blanks, a line that ends a statement, a statement followed by
\* a comment on the same line, and a semicolon alone
ScriptLines ==
    { << >>,
      <<"/", "/", "x", ";">>,
      <<"x">>,
      <<" ", "y", ";", " ">>,
      <<"x", ";">>,
      <<"y", ";", "/", "/">>,
      <<";">> }

\* the scripts of at most n lines
FilesUpTo(n) ==
    UNION {[1..m -> ScriptLines] : m \in 0..n}

\* what the database rejects
RejectSets == {{}, {"y"}}

InitIngest ==
    /\ InitWeights
    /\ InitThreads
    /\ inputs = NoInputs
    /\ \E d \in FilesUpTo(MaxLines) : \E c \in FilesUpTo(MaxLines - Len(d)) :
       \E l \in FilesUpTo(MaxLines - Len(d) - Len(c)) : \E r \in RejectSets :
          env = [files |-> [drop_indexes |-> d, create_indexes |-> c, load_data |-> l],
                 rejects |-> r]
    /\ request = [text |-> ""]
    /\ log = << >>

NextIngest == ingest

\* one ingestion of three scripts into a database
SpecIngest == InitIngest /\ [][NextIngest]_vars

-----------------------------------------------------------------------------
(* Claims about set_weights, checked under SpecWeights *)

IsSetWeights == op.name = "set_weights"

AllSupplied(a) == a.vector.some /\ a.fulltext.some /\ a.semantic.some

\* the value line 36-41 leave in a weight: the argument, or the weight before the call
Assigned(k) == IF op.args[k].some THEN op.args[k].val ELSE op.pre[k]

AssignedTotal == Add(Add(Assigned("vector"), Assigned("fulltext")), Assigned("semantic"))

WeightKeys == {"vector", "fulltext", "semantic"}

\* C1: from the default weights and after any sequence of set_weights calls that
\* each normalised a sum greater than 0, the three stored weights sum to 1.
C1_WeightsSumToOne ==
    allPositive => Add(Add(vector_weight, fulltext_weight), semantic_weight) = One

C1_Witness ==
    /\ IsSetWeights /\ allPositive /\ calls >= 2
    /\ ~AllSupplied(op.args)
    /\ weights # DefaultWeights
    /\ Less(vector_weight, Zero)

\* C6: a set_weights call whose three values to normalise sum to 0 fails with an
\* error, and no stored weight is ever NaN.
C6_ZeroSumFails ==
    /\ (IsSetWeights /\ AssignedTotal = Zero) => op.status = "ZeroDivisionError"
    /\ \A k \in WeightKeys : ~IsNaN(weights[k])

C6_Witness ==
    /\ IsSetWeights
    /\ op.args = W(Some(Zero), Some(Zero), Some(Zero))
    /\ op.status = "ZeroDivisionError"
    /\ weights = W(Zero, Zero, Zero)

\* C7: a set_weights call given a negative weight fails at the call, and every
\* stored weight is non-negative in every reachable state.
C7_NegativeRejected ==
    /\ (IsSetWeights /\ \E k \in WeightKeys :
            op.args[k].some /\ Less(op.args[k].val, Zero)) => op.status # "ok"
    /\ \A k \in WeightKeys : ~Less(weights[k], Zero)

\* C8: set_weights replaces each supplied weight, keeps each omitted one, and
\* stores each of the three values divided by their sum; with all three supplied
\* the stored weights depend on the arguments alone (0.4/0.3/0.3 restores the
\* defaults; arguments summing to 1 are stored as given).
C8_ReplaceKeepNormalise ==
    (IsSetWeights /\ op.status = "ok") =>
        /\ \A k \in WeightKeys : Mul(weights[k], AssignedTotal) = Assigned(k)
        /\ AllSupplied(op.args) =>
              LET t == Add(Add(op.args.vector.val, op.args.fulltext.val),
                           op.args.semantic.val)
              IN  /\ \A k \in WeightKeys : Mul(weights[k], t) = op.args[k].val
                  /\ t = One => \A k \in WeightKeys : weights[k] = op.args[k].val
        /\ op.args = W(Some(R(2, 5)), Some(R(3, 10)), Some(R(3, 10)))
              => weights = DefaultWeights

C8_Witness ==
    /\ IsSetWeights /\ op.status = "ok"
    /\ op.pre # DefaultWeights
    /\ op.args.vector.some /\ ~op.args.fulltext.some /\ ~op.args.semantic.some
    /\ op.pre.fulltext # Zero
    /\ weights # op.pre

\* C9 (as claimed): for any argument combination with positive sum, the same
\* set_weights call made twice in succession leaves the weights the first left.
C9_IdempotentAnyArgs ==
    (IsSetWeights /\ repeated /\ Less(Zero, op.total)) => weights = op.pre

\* C9 (amended): a set_weights call supplying all three weights, with positive
\* sum, made twice in succession leaves the weights the first call left.
C9_IdempotentAllSupplied ==
    (IsSetWeights /\ repeated /\ Less(Zero, op.total) /\ AllSupplied(op.args))
        => weights = op.pre

C9_Witness ==
    /\ IsSetWeights /\ repeated /\ Less(Zero, op.total) /\ AllSupplied(op.args)
    /\ weights # DefaultWeights
    /\ weights # W(op.args.vector.val, op.args.fulltext.val, op.args.semantic.val)

-----------------------------------------------------------------------------
(* Claims about fusion, checked under Spec *)

IsFusion == op.name = "_combine_and_rerank"

\* the positions at which document i occurs in a strategy's list
Occ(list, i) == {j \in 1..Len(list) : list[j].id = i}

\* the weighted raw score a strategy contributes to a document it returned once,
\* and 0 for a document it did not return
Contribution(list, i, w) ==
    IF Occ(list, i) = {} THEN Zero
    ELSE Mul(list[CHOOSE j \in Occ(list, i) : TRUE].score, w)

AtMostOnce(i) ==
    /\ Cardinality(Occ(inputs.vector_results, i)) <= 1
    /\ Cardinality(Occ(inputs.fulltext_results, i)) <= 1
    /\ Cardinality(Occ(inputs.semantic_results, i)) <= 1

WeightedSum(i) ==
    Add(Add(Contribution(inputs.vector_results, i, vector_weight),
            Contribution(inputs.fulltext_results, i, fulltext_weight)),
        Contribution(inputs.semantic_results, i, semantic_weight))

Halves == W(R(1, 2), R(1, 2), Zero)
Thirds == W(R(1, 3), R(1, 3), R(1, 3))

\* C2: the combined score of every fused entry is the sum, over exactly the
\* strategies whose list contains the document, of raw score times weight (a
\* document is taken to occur at most once in a strategy's list); vector 0.8
\* and fulltext 0.6 under weights 0.5/0.5/0 give 0.70 and semantic_score 0.
C2_WeightedSumOverReturningStrategies ==
    IsFusion =>
        /\ \A j \in 1..Len(op.result) :
              AtMostOnce(op.result[j].id)
                  => op.result[j].score = WeightedSum(op.result[j].id)
        /\ \A j \in 1..Len(op.entries) :
              AtMostOnce(op.entries[j].id)
                  => op.entries[j].combined_score = WeightedSum(op.entries[j].id)
        /\ ( /\ weights = Halves
             /\ inputs.vector_results = <<Item(1, R(4, 5))>>
             /\ inputs.fulltext_results = <<Item(1, R(3, 5))>>
             /\ inputs.semantic_results = << >> )
           => /\ op.entries[1].combined_score = R(7, 10)
              /\ op.entries[1].semantic_score = Zero

C2_Witness ==
    /\ IsFusion
    /\ weights = Halves
    /\ inputs.vector_results = <<Item(1, R(4, 5))>>
    /\ inputs.fulltext_results = <<Item(1, R(3, 5))>>
    /\ inputs.semantic_results = << >>
    /\ op.result = <<Item(1, R(7, 10))>>

\* C3: the fusion result has at most top_k entries (none for a top_k below 0),
\* non-increasing scores and no document twice, and no accumulated document left
\* out has a score strictly greater than a returned one.
C3_TopKSortedDistinct ==
    IsFusion =>
        /\ Len(op.result) <= Max(inputs.top_k, 0)
        /\ \A i, j \in 1..Len(op.result) :
              i < j => /\ ~Less(op.result[i].score, op.result[j].score)
                       /\ op.result[i].id # op.result[j].id
        /\ \A e \in 1..Len(op.entries) :
              (\A j \in 1..Len(op.result) : op.result[j].id # op.entries[e].id)
                  => \A j \in 1..Len(op.result) :
                        ~Less(op.result[j].score, op.entries[e].combined_score)

\* the three input lists in the order the loops read them
AllItems == inputs.vector_results \o inputs.fulltext_results \o inputs.semantic_results

\* where a document is first seen by the loops
FirstSeen(i) == CHOOSE j \in Occ(AllItems, i) : \A k \in Occ(AllItems, i) : j <= k

\* C4: accumulated documents with exactly equal combined scores are returned in
\* the order in which their entries were first created (vector list, then
\* fulltext list, then semantic list), and a returned document was created before
\* any document of equal score that was cut off; three disjoint lists scored
\* 0.9, 0.8, 0.7, 0.6 with equal weights and top_k = 3 give the vector 0.9
\* document, then the fulltext one, then the semantic one.
C4_TiesInFirstSeenOrder ==
    IsFusion =>
        /\ \A i, j \in 1..Len(op.result) :
              (i < j /\ op.result[i].score = op.result[j].score)
                  => FirstSeen(op.result[i].id) < FirstSeen(op.result[j].id)
        /\ \A j \in 1..Len(op.result) : \A e \in 1..Len(op.entries) :
              ( /\ op.entries[e].combined_score = op.result[j].score
                /\ \A k \in 1..Len(op.result) : op.result[k].id # op.entries[e].id )
                  => FirstSeen(op.result[j].id) < FirstSeen(op.entries[e].id)
        /\ (inputs = EndToEndScenario /\ weights = Thirds)
              => op.result = <<Item(11, R(3, 10)), Item(21, R(3, 10)), Item(31, R(3, 10))>>

C4_Witness ==
    /\ IsFusion
    /\ inputs = EndToEndScenario
    /\ weights = Thirds
    /\ op.result = <<Item(11, R(3, 10)), Item(21, R(3, 10)), Item(31, R(3, 10))>>

\* C5: for every top_k <= 0 fusion returns an empty result without an error.
C5_NonPositiveTopKEmpty ==
    (IsFusion /\ inputs.top_k <= 0) => (op.status = "ok" /\ op.result = << >>)

-----------------------------------------------------------------------------
(* Claims about concurrent requests, checked under SpecConc *)

FusedWith(w) ==
    rerank(accumulate(inputs.vector_results, inputs.fulltext_results,
                      inputs.semantic_results, w), inputs.top_k)

\* C10: when a set_weights call of another request runs beside a fusion call,
\* the fusion result is the one computed entirely with the weights before the
\* update or entirely with the weights after it.
C10_FusionUsesOneSnapshot ==
    (f_pc = "done" /\ s_pc[1] = Done)
        => op.result \in {FusedWith(s_pre[1]), FusedWith(weights)}

-----------------------------------------------------------------------------
(* Claims about retrieve and explain_retrieval, checked under SpecRetrieve *)

IsRetrieve == op.name = "retrieve"
IsExplain == op.name = "explain_retrieval"

\* the rows a strategy answers when asked for k rows
Answer(strategy, k) == Limit(env[strategy], k)

\* the fusion of the three answers of size k under the weights w, cut to top_k
FusedAnswers(k, top_k, w) ==
    rerank(accumulate(Answer("vector", k), Answer("fulltext", k),
                      Answer("semantic", k), w), top_k)

\* C11: retrieve with a strategy value other than "vector", "fulltext",
\* "semantic" or "hybrid" fails with an error whose message names the invalid
\* value, and no strategy has been called when it fails.
C11_UnknownStrategyRejected ==
    (IsRetrieve /\ request.strategy \notin Strategies \cup {"hybrid"})
        => /\ op.status = "ValueError"
           /\ \E i \in 1..Len(op.result) : op.result[i] = request.strategy
           /\ log = << >>

C11_Witness ==
    /\ IsRetrieve
    /\ request.strategy = "bogus"
    /\ op.status = "ValueError"
    /\ env.vector # << >>

\* the calls of one hybrid retrieval that completes
HybridCalls(k) ==
    <<Call("vector", 2 * k), Call("fulltext", 2 * k), Call("semantic", 2 * k),
      Call("fuse", k)>>

\* C12: in hybrid mode every request retrieve makes to a strategy asks for
\* 2 * top_k rows; a hybrid retrieval that completes has asked the vector, the
\* fulltext and the semantic strategy once each, has then fused the three
\* answers, and returns at most top_k documents.
C12_HybridOverfetchesThenFuses ==
    (IsRetrieve /\ request.strategy = "hybrid")
        => /\ \A i \in 1..Len(log) :
                log[i].fn \in Strategies => log[i].k = 2 * request.top_k
           /\ op.status = "ok"
                => /\ log = HybridCalls(request.top_k)
                   /\ op.result = FusedAnswers(2 * request.top_k, request.top_k, weights)
                   /\ Len(op.result) <= request.top_k

\* a strategy had more than top_k rows, and the fusion cut the result to top_k
C12_Witness ==
    /\ IsRetrieve
    /\ request.strategy = "hybrid"
    /\ op.status = "ok"
    /\ Len(Answer("fulltext", 2 * request.top_k)) > request.top_k
    /\ Len(op.result) = request.top_k
    /\ op.result # FusedAnswers(request.top_k, request.top_k, weights)

\* C13: for a strategy in {"vector", "fulltext", "semantic"} retrieve makes
\* exactly one strategy call, to that strategy and at size top_k, and returns
\* the list of that call unchanged, with the raw scores, whatever the weights.
C13_SingleStrategyRaw ==
    (IsRetrieve /\ request.strategy \in Strategies)
        => /\ log = <<Call(request.strategy, request.top_k)>>
           /\ op.status = "ok"
                => op.result = Answer(request.strategy, request.top_k)

\* the semantic strategy alone, called while its weight is 0
C13_Witness ==
    /\ IsRetrieve
    /\ request.strategy = "semantic"
    /\ op.status = "ok"
    /\ semantic_weight = Zero
    /\ Len(op.result) >= 1

\* the calls of one explanation that completes
ExplainCalls(k) ==
    <<Call("vector", k), Call("fulltext", k), Call("semantic", k)>> \o HybridCalls(k)

\* C14: explain_retrieval obtains its three per-strategy blocks by calling each
\* strategy at size top_k; its fused block is what retrieve(query, top_k,
\* "hybrid") returns for the same weights and the same strategy answers; and
\* total_results is the length of the fused block.
C14_ExplainMatchesHybrid ==
    (IsExplain /\ op.status = "ok")
        => /\ log = ExplainCalls(request.top_k)
           /\ op.result.vector_results = Answer("vector", request.top_k)
           /\ op.result.fulltext_results = Answer("fulltext", request.top_k)
           /\ op.result.semantic_results = Answer("semantic", request.top_k)
           /\ op.result.hybrid_results
                = retrieve_outcome(request.top_k, "hybrid", weights).result
           /\ op.result.hybrid_results
                = FusedAnswers(2 * request.top_k, request.top_k, weights)
           /\ op.result.total_results = Len(op.result.hybrid_results)

\* an explanation whose fused block is not the fusion of the blocks it shows
C14_Witness ==
    /\ IsExplain
    /\ op.status = "ok"
    /\ op.result.total_results >= 1
    /\ op.result.hybrid_results
         # FusedAnswers(request.top_k, request.top_k, weights)

\* C19: when exactly one strategy call fails during a hybrid retrieval and the
\* other two succeed, the call returns the fusion of the two successful answers,
\* the failed strategy counted as an empty list.
C19_DegradesGracefully ==
    (IsRetrieve /\ request.strategy = "hybrid" /\ Cardinality(env.failing) = 1)
        => /\ op.status = "ok"
           /\ op.result = hybrid_retrieve_degrading(request.top_k, weights).result

-----------------------------------------------------------------------------
(* More claims about _combine_and_rerank, checked under Spec *)

VectorOnly == W(One, Zero, Zero)

\* C15 as stated: with the weights 1/0/0, fusing any list A of n <= k entries
\* with two empty lists returns A unchanged.
C15_VectorOnlyIdentityAnyList ==
    (/\ IsFusion
     /\ weights = VectorOnly
     /\ inputs.fulltext_results = << >>
     /\ inputs.semantic_results = << >>
     /\ Len(inputs.vector_results) <= inputs.top_k)
        => op.result = inputs.vector_results

\* C15: with the weights 1/0/0, fusing a list A of n <= k entries that names no
\* document twice and whose scores do not increase with two empty lists returns
\* A unchanged: the same documents in the same order with the same scores.
C15_VectorOnlyIdentityRanked ==
    (/\ IsFusion
     /\ weights = VectorOnly
     /\ inputs.fulltext_results = << >>
     /\ inputs.semantic_results = << >>
     /\ Len(inputs.vector_results) <= inputs.top_k
     /\ IsRanked(inputs.vector_results))
        => op.result = inputs.vector_results

C15_Witness ==
    /\ IsFusion
    /\ weights = VectorOnly
    /\ inputs.fulltext_results = << >>
    /\ inputs.semantic_results = << >>
    /\ Len(inputs.vector_results) = 2
    /\ inputs.top_k = 2
    /\ IsRanked(inputs.vector_results)
    /\ Less(inputs.vector_results[2].score, inputs.vector_results[1].score)
    /\ op.result = inputs.vector_results

AnyEmpty ==
    \/ inputs.vector_results = << >>
    \/ inputs.fulltext_results = << >>
    \/ inputs.semantic_results = << >>

\* the documents of the three lists
InputIds == {AllItems[i].id : i \in 1..Len(AllItems)}

\* C16: fusing three empty lists returns an empty list for any k, and a fusion
\* with an empty input list does not fail: the documents accumulated are
\* exactly those of the other lists, the empty list contributes score 0 to each
\* of them, and as many of them are returned as top_k allows.
C16_EmptyListsAreValid ==
    (IsFusion /\ AnyEmpty)
        => /\ op.status = "ok"
           /\ AllItems = << >> => op.result = << >>
           /\ {op.entries[e].id : e \in 1..Len(op.entries)} = InputIds
           /\ \A e \in 1..Len(op.entries) :
                /\ inputs.vector_results = << >>
                     => op.entries[e].vector_score = Zero
                /\ inputs.fulltext_results = << >>
                     => op.entries[e].fulltext_score = Zero
                /\ inputs.semantic_results = << >>
                     => op.entries[e].semantic_score = Zero
           /\ Len(op.result) = Len(slice_to(op.entries, inputs.top_k))

\* no vector result, and the fulltext results are fused and returned
C16_Witness ==
    /\ IsFusion
    /\ inputs.vector_results = << >>
    /\ inputs.fulltext_results # << >>
    /\ Len(op.result) >= 1

-----------------------------------------------------------------------------
(* The weights and the fused order, checked under SpecMonotone *)

\* the last call was set_weights(vector_weight = x) with x above the stored
\* vector weight and the other two weights not supplied
VectorRaised ==
    /\ IsSetWeights
    /\ op.args.vector.some
    /\ ~op.args.fulltext.some
    /\ ~op.args.semantic.some
    /\ Less(op.pre.vector, op.args.vector.val)

\* position of document i in a fused result, 0 if it is not returned
Pos(res, i) ==
    IF \E j \in 1..Len(res) : res[j].id = i
    THEN CHOOSE j \in 1..Len(res) : res[j].id = i
    ELSE 0

\* document a is returned, and document b is returned after it or not at all
Ahead(res, a, b) ==
    /\ Pos(res, a) # 0
    /\ Pos(res, b) = 0 \/ Pos(res, a) < Pos(res, b)

\* the raw score of a document a strategy returned once
RawScore(list, i) == list[CHOOSE j \in Occ(list, i) : TRUE].score

\* dv is returned by the vector strategy only, df by the fulltext strategy only,
\* once each and with equal raw scores
EqualRivals(dv, df) ==
    /\ Cardinality(Occ(inputs.vector_results, dv)) = 1
    /\ Occ(inputs.fulltext_results, dv) = {}
    /\ Occ(inputs.semantic_results, dv) = {}
    /\ Cardinality(Occ(inputs.fulltext_results, df)) = 1
    /\ Occ(inputs.vector_results, df) = {}
    /\ Occ(inputs.semantic_results, df) = {}
    /\ RawScore(inputs.vector_results, dv) = RawScore(inputs.fulltext_results, df)

\* C18: with the strategy lists held fixed, for a document dv returned only by
\* the vector strategy and a document df returned only by the fulltext strategy
\* with equal raw scores, a set_weights call that raises the vector weight and
\* leaves the other two to the normalisation never moves dv from ahead of df in
\* the fusion under the weights before the call to behind df in the fusion
\* under the weights after it.
C18_RaisingVectorKeepsOrder ==
    VectorRaised =>
        \A dv, df \in InputIds :
            (EqualRivals(dv, df) /\ Ahead(FusedWith(op.pre), dv, df))
                => ~Ahead(FusedWith(weights), df, dv)

\* the two documents tie under equal weights, and both are returned in the
\* same order after the vector weight was raised
C18_Witness ==
    /\ VectorRaised
    /\ op.status = "ok"
    /\ op.pre = Thirds
    /\ \E dv, df \in InputIds :
          /\ EqualRivals(dv, df)
          /\ Ahead(FusedWith(op.pre), dv, df)
          /\ Pos(FusedWith(weights), df) # 0
          /\ Ahead(FusedWith(weights), dv, df)

-----------------------------------------------------------------------------
(* Claims about process_query, checked under SpecPipeline *)

IsProcessQuery == op.name = "process_query"

\* the completion service was called and its call raised
GenerationFailed ==
    /\ env.llm = "fails"
    /\ \E i \in 1..Len(log) : log[i].fn = "generate"

\* C20: when response generation fails, process_query returns a payload, it
\* does not raise, and the payload carries the context that was prepared from
\* the retrieved documents before the failure.
C20_GenerationFailureKeepsContext ==
    (IsProcessQuery /\ GenerationFailed)
        => /\ op.status = "ok"
           /\ "response" \in DOMAIN op.result
           /\ op.result.response.context
                = prepare_context(retrieve_outcome(request.top_k, request.strategy,
                                                   weights).result)

-----------------------------------------------------------------------------
(* The weights during retrieval, checked under SpecRetrieve *)

\* C21: retrieve with every strategy, the fusion it runs in hybrid mode and
\* explain_retrieval leave the three stored weights as they are: a step that
\* changes a stored weight is a set_weights call.
C21_OnlySetWeightsChangesWeights ==
    [][weights' # weights => (op'.name = "set_weights" /\ calls' = calls + 1)]_vars

\* a hybrid retrieval and an explanation have run under weights that
\* set_weights stored, and the weights are still those
C21_Witness ==
    /\ IsExplain
    /\ op.status = "ok"
    /\ calls = 1
    /\ weights = Halves
    /\ op.pre = Halves
    /\ op.result.strategy_weights = Halves
    /\ Len(op.result.hybrid_results) >= 1

-----------------------------------------------------------------------------
(* A failing set_weights call, checked under SpecWeights *)

\* C23: a set_weights call that fails, for example because the values to
\* normalise sum to 0, leaves the three stored weights exactly as they were
\* before the call.
C23_FailedCallKeepsWeights ==
    (IsSetWeights /\ op.status # "ok") => weights = op.pre

-----------------------------------------------------------------------------
(* The score fields of the accumulated entries, checked under Spec *)

\* the weighted sum of the three score fields of an entry
OwnFieldsSum(e) ==
    Add(Add(Mul(e.vector_score, vector_weight),
            Mul(e.fulltext_score, fulltext_weight)),
        Mul(e.semantic_score, semantic_weight))

\* C24 as stated: at the end of fusion every accumulated entry's combined score
\* is the weighted sum of its own three score fields, for all inputs, also
\* when a document occurs more than once in one strategy's list.
C24_CombinedFromOwnFieldsAnyInput ==
    IsFusion =>
        \A e \in 1..Len(op.entries) :
            op.entries[e].combined_score = OwnFieldsSum(op.entries[e])

\* C24: at the end of fusion every accumulated entry's combined score is the
\* weighted sum of its own three score fields, for all inputs in which no
\* document occurs more than once in the fulltext list or more than once in
\* the semantic list; the vector list may name a document more than once.
C24_CombinedFromOwnFields ==
    (/\ IsFusion
     /\ \A i \in InputIds : Cardinality(Occ(inputs.fulltext_results, i)) <= 1
     /\ \A i \in InputIds : Cardinality(Occ(inputs.semantic_results, i)) <= 1)
        => \A e \in 1..Len(op.entries) :
              op.entries[e].combined_score = OwnFieldsSum(op.entries[e])

\* a document that all three strategies returned, fused under three equal
\* weights
C24_Witness ==
    /\ IsFusion
    /\ weights = Thirds
    /\ \A i \in InputIds : Cardinality(Occ(inputs.fulltext_results, i)) <= 1
    /\ \A i \in InputIds : Cardinality(Occ(inputs.semantic_results, i)) <= 1
    /\ \E e \in 1..Len(op.entries) :
          /\ op.entries[e].vector_score # Zero
          /\ op.entries[e].fulltext_score # Zero
          /\ op.entries[e].semantic_score # Zero
          /\ op.entries[e].combined_score = OwnFieldsSum(op.entries[e])

-----------------------------------------------------------------------------
(* The order of the calls of a hybrid retrieval, checked under SpecRetrieve *)

\* the names of the calls made, in the order they were made
CallNames == [i \in 1..Len(log) |-> log[i].fn]

IsPrefix(a, b) == Len(a) <= Len(b) /\ SubSeq(b, 1, Len(a)) = a

FusionInvoked == \E i \in 1..Len(log) : log[i].fn = "fuse"

\* C27: a hybrid retrieval calls the strategies in the order vector, fulltext,
\* semantic and invokes the fusion only after all three have returned; when a
\* strategy call fails the fusion is not invoked for that request.
C27_FusionOnlyOnCompleteResults ==
    (IsRetrieve /\ request.strategy = "hybrid")
        => /\ IsPrefix(CallNames, <<"vector", "fulltext", "semantic", "fuse">>)
           /\ FusionInvoked => (env.failing = {} /\ op.status = "ok")
           /\ env.failing # {} => (~FusionInvoked /\ op.status # "ok")

\* the vector and the fulltext strategy answered, the semantic one failed, and
\* the request ended there
C27_Witness ==
    /\ IsRetrieve
    /\ request.strategy = "hybrid"
    /\ env.failing = {"semantic"}
    /\ env.vector # << >>
    /\ CallNames = <<"vector", "fulltext", "semantic">>
    /\ op.status = "DatabaseError"

-----------------------------------------------------------------------------
(* Failures inside process_query, checked under SpecPipeline *)

\* the retrieval of the request raises: the strategy is unknown, or a search
\* it needs is down
RetrievalFails ==
    \/ request.strategy \notin Strategies \cup {"hybrid"}
    \/ request.strategy \in env.failing
    \/ request.strategy = "hybrid" /\ env.failing # {}

\* an explanation is asked for and one of the searches it makes is down
ExplanationFails == request.include_explanation /\ env.failing # {}

GenerationCalled == \E i \in 1..Len(log) : log[i].fn = "generate"

\* a dict with the keys 'error', 'query' and 'strategy' of this request
IsErrorDict(p) ==
    /\ {"error", "query", "strategy"} \subseteq DOMAIN p
    /\ p.query = request.query
    /\ p.strategy = request.strategy

\* C28: process_query never lets an exception out: when the retrieval fails
\* (an unknown strategy included) or building the explanation fails, it
\* returns a dict containing 'error', 'query' and 'strategy', and otherwise a
\* result without 'error'; when the retrieval fails no generation call is made.
C28_FailuresBecomeErrorDict ==
    IsProcessQuery
        => /\ op.status = "ok"
           /\ (RetrievalFails \/ ExplanationFails) => IsErrorDict(op.result)
           /\ ~(RetrievalFails \/ ExplanationFails) => "error" \notin DOMAIN op.result
           /\ RetrievalFails => ~GenerationCalled

\* the retrieval and the generation succeeded and the explanation failed
C28_Witness ==
    /\ IsProcessQuery
    /\ ~RetrievalFails
    /\ ExplanationFails
    /\ env.llm = "ok"
    /\ GenerationCalled
    /\ IsErrorDict(op.result)

\* C29: the context that _prepare_context returns and that is passed to the
\* generation never has more than max_context_length characters.
C29_ContextWithinLimit ==
    (IsProcessQuery /\ "context_length" \in DOMAIN op.result)
        => /\ op.result.context_length <= max_context_length
           /\ op.result.response.context.length <= max_context_length

-----------------------------------------------------------------------------
(* Two overlapping set_weights calls, checked under SpecSetters *)

\* no set_weights call is in progress
NoSetterRunning == \A t \in Setters : s_pc[t] \in {Idle, Done, Raised}

\* the calls that have run to their end each normalised a positive sum
FinishedWithPositiveSum ==
    \A t \in Setters : s_pc[t] # Idle => (s_pc[t] = Done /\ Less(Zero, s_total[t]))

\* C25: whenever no set_weights call is in progress the stored weights sum to
\* 1, also after two set_weights calls with positive sums, made by different
\* callers, have overlapped in any interleaving of their reads and writes.
C25_SumIsOneAfterOverlap ==
    (NoSetterRunning /\ FinishedWithPositiveSum)
        => Add(Add(vector_weight, fulltext_weight), semantic_weight) = One

-----------------------------------------------------------------------------
(* The weights an explanation reports, checked under SpecExplainConc *)

\* C26: the strategy_weights explain_retrieval reports are the weights its
\* hybrid_results were computed with, in every interleaving with a set_weights
\* call that another request makes while the explanation is built.
C26_ReportedWeightsAreUsedWeights ==
    f_pc = "explained"
        => /\ op.entries = accumulate(inputs.vector_results, inputs.fulltext_results,
                                      inputs.semantic_results, e_weights)
           /\ op.result = FusedWith(e_weights)

-----------------------------------------------------------------------------
(* The fallback embedding, checked under SpecEmbedding *)

\* C22: without a remote client generate_embedding is deterministic for a
\* given text: two calls with the same text return the same vector, also when
\* the two calls are made in two separate runs of the program.
C22_FallbackEmbeddingDeterministic ==
    \A i \in DOMAIN log : \A j \in DOMAIN log :
        (/\ log[i].client = "none"
         /\ log[j].client = "none"
         /\ log[i].text = log[j].text)
            => log[i].vector = log[j].vector

-----------------------------------------------------------------------------
(* The commands of an ingestion, checked under SpecIngest *)

IsBlankLine(l) == \A i \in DOMAIN l : l[i] = " "

FirstInk(l) == CHOOSE i \in DOMAIN l : l[i] # " " /\ \A j \in 1..(i - 1) : l[j] = " "

LastInk(l) == CHOOSE i \in DOMAIN l : l[i] # " " /\ \A j \in (i + 1)..Len(l) : l[j] = " "

IsCommentLine(l) ==
    /\ ~IsBlankLine(l)
    /\ FirstInk(l) < Len(l)
    /\ <<l[FirstInk(l)], l[FirstInk(l) + 1]>> \in {<<"/", "/">>, <<"-", "-">>}

IsStatementLine(l) == ~IsBlankLine(l) /\ ~IsCommentLine(l)

\* the lines that end a statement
Ends(lines) ==
    {i \in DOMAIN lines : IsStatementLine(lines[i]) /\ lines[i][LastInk(lines[i])] = ";"}

KthEnd(lines, k) ==
    CHOOSE e \in Ends(lines) : Cardinality({e2 \in Ends(lines) : e2 < e}) = k - 1

\* the non-blank, non-comment lines after the statement before, up to line e
StatementLines(lines, e) ==
    LET before == {e2 \in Ends(lines) : e2 < e}
        start  == IF before = {} THEN 1
                  ELSE 1 + CHOOSE b \in before : \A b2 \in before : b2 <= b
    IN  SelectSeq(SubSeq(lines, start, e), IsStatementLine)

\* the text of the lines of a statement, one blank between two lines
RECURSIVE StatementText(_)
StatementText(ls) ==
    LET ink == SubSeq(ls[1], FirstInk(ls[1]), LastInk(ls[1]))
    IN  IF Len(ls) = 1 THEN ink ELSE ink \o <<" ">> \o StatementText(Tail(ls))

\* the statements of one script in file order
StatementsOf(script) ==
    LET lines == env.files[script]
    IN  [k \in 1..Cardinality(Ends(lines)) |->
            [script |-> script,
             command |-> StatementText(StatementLines(lines, KthEnd(lines, k)))]]

\* C30: ingestion runs the drop-indexes script, then the create-indexes
\* script, then the load-data script; within a script every statement (the
\* non-blank, non-comment lines up to a line ending in ';') is executed in file
\* order, and a statement that fails keeps none of the statements and scripts
\* after it from being executed.
C30_IngestRunsEveryStatementInOrder ==
    op.name = "ingest"
        => [i \in DOMAIN log |-> [script |-> log[i].script, command |-> log[i].command]]
               = StatementsOf("drop_indexes") \o StatementsOf("create_indexes")
                     \o StatementsOf("load_data")

\* a statement of the first script fails, and a statement of two lines in a
\* later script is executed after it
C30_Witness ==
    /\ op.name = "ingest"
    /\ \E i \in DOMAIN log : \E j \in DOMAIN log :
          /\ i < j
          /\ log[i].script = "drop_indexes"
          /\ log[i].status = "failed"
          /\ log[j].script # "drop_indexes"
          /\ \E c \in DOMAIN log[j].command : log[j].command[c] = " "

====
